---- MODULE Spec2Model ----
(***************************************************************************)
(* Model of the UI build/test glue of the repository:                      *)
(*   - the two vite configuration files (src/ui/vite.config.js and its     *)
(*     copy), each exporting one record through defineConfig;              *)
(*   - the test bootstrap script named by test.setupFiles, which replaces  *)
(*     URL.createObjectURL, URL.revokeObjectURL, ResizeObserver and        *)
(*     IntersectionObserver by vi.fn() mocks;                              *)
(*   - the test run that the `test` section of a configuration describes:  *)
(*     the environment is set up, the setup file is evaluated statement by *)
(*     statement, then tests call the mocked globals.                      *)
(***************************************************************************)
EXTENDS Integers, Sequences, FiniteSets, TLC

VARIABLES
  exported,   \* config file -> the record it handed to the bundler
  cfg,        \* the config file driving the current run ("none" when idle)
  env,        \* the environment the current run provides ("none" when idle)
  phase,      \* "idle" | "loaded" | "setup" | "ready" | "test" | "failed"
  pc,         \* position in the setup script
  trace,      \* the statements of the setup script executed in this run, in order
  imports,    \* modules the setup script has imported
  globals,    \* global symbol -> value
  mocks,      \* the vi.fn() mock functions created so far: [impl, calls]
  instances,  \* the observer objects constructed so far
  made,       \* history: global symbol -> calls made by tests since setup
  madeOn,     \* history: per instance, per operation, calls made by tests
  ncalls,     \* history: total calls made by tests in this run
  tests,      \* tests started in this run
  last        \* the latest call a test made and its outcome

vars == <<exported, cfg, env, phase, pc, trace, imports, globals, mocks,
          instances, made, madeOn, ncalls, tests, last>>

realm == <<globals, mocks, instances, made, madeOn, ncalls, last, imports>>

(***************************************************************************)
(* Bounds                                                                  *)
(***************************************************************************)
MaxCalls == 3
MaxInstances == 2
MaxTests == 2

Args == {"blobA", "blobB"}

(***************************************************************************)
(* The two configuration files                                             *)
(***************************************************************************)
UiFile == "src/ui/vite.config.js"
CopyFile == "vite.config.js"
ConfigFiles == {UiFile, CopyFile}

UiViteConfig ==
  [ plugins      |-> <<"react()">>,
    esbuild      |-> [ loader  |-> "jsx",
                       include |-> "/src\\/.*\\.[jt]sx?$/",
                       exclude |-> <<>> ],
    optimizeDeps |-> [ include |-> <<"aws-amplify", "@aws-amplify/ui-react", "buffer">>,
                       esbuildOptions |-> [loader |-> (".js" :> "jsx")] ],
    server       |-> [port |-> 3000, host |-> TRUE, open |-> TRUE],
    build        |-> [outDir |-> "build", sourcemap |-> TRUE],
    define       |-> [global |-> "globalThis"],
    resolve      |-> [alias |-> ("./runtimeConfig" :> "./runtimeConfig.browser")
                                @@ ("buffer" :> "buffer")],
    test         |-> [ globals     |-> TRUE,
                       environment |-> "jsdom",
                       setupFiles  |-> <<"./src/setupTests.js">>,
                       css         |-> TRUE,
                       server      |-> [deps |-> [external |-> <<"maplibre-gl">>]] ] ]

\* Variant: the copy drifts from the original (no source maps).
CopyViteConfigDrift ==
  [UiViteConfig EXCEPT !.build.sourcemap = FALSE]


CopyViteConfig ==
  [ plugins      |-> <<"react()">>,
    server       |-> [port |-> 3000, host |-> TRUE, open |-> TRUE],
    build        |-> [outDir |-> "build", sourcemap |-> TRUE],
    define       |-> [global |-> "globalThis"],
    resolve      |-> [alias |-> ("./runtimeConfig" :> "./runtimeConfig.browser")
                                @@ ("buffer" :> "buffer")],
    optimizeDeps |-> [ include |-> <<"aws-amplify", "@aws-amplify/ui-react", "buffer">> ],
    test         |-> [ globals     |-> TRUE,
                       environment |-> "jsdom",
                       setupFiles  |-> <<"./src/setupTests.js">>,
                       css         |-> TRUE,
                       server      |-> [deps |-> [external |-> <<"maplibre-gl">>]] ] ]

ConfigLiteral(f) == IF f = UiFile THEN UiViteConfig ELSE CopyViteConfig

\* Variant: a helper that fills in the bundler's default port.
defineConfigDefaultPort(c) == [c EXCEPT !.server.port = 5173]

\* defineConfig returns the record it is given.
defineConfig(c) == c

\* An option of the test section, or the runner's default when the file
\* does not write it.
TestOption(c, name, default) ==
  IF name \in DOMAIN c.test THEN c.test[name] ELSE default

\* Variant: the test section names no setup file.
NoSetupFiles(c) == <<>>


SetupFiles(c) == TestOption(c, "setupFiles", <<>>)

\* Variant: the test section sets clearMocks: true.
ResetsMocksOn(c) == TRUE

\* The runner's mock-resetting options; neither file writes any of them.
ResetsMocks(c) ==
  \/ TestOption(c, "clearMocks", FALSE)
  \/ TestOption(c, "mockReset", FALSE)
  \/ TestOption(c, "restoreMocks", FALSE)

(***************************************************************************)
(* The JavaScript realm of a test run                                      *)
(***************************************************************************)
Replaced == {"URL.createObjectURL", "URL.revokeObjectURL",
             "ResizeObserver", "IntersectionObserver"}
Observers == {"ResizeObserver", "IntersectionObserver"}
ObserverOps == {"observe", "unobserve", "disconnect"}
GlobalNames == Replaced \cup {"URL", "URL.prototype", "document", "expect"}

Undefined == [kind |-> "undefined", id |-> 0]
Native == [kind |-> "native", id |-> 0]
MockRef(i) == [kind |-> "mock", id |-> i]

\* What the environment provides before the setup file is evaluated: jsdom
\* has URL and document but none of the four browser APIs; an environment
\* chosen instead of the configured one may provide no URL at all.
Environments == {"jsdom", "custom"}
EnvGlobals(e) ==
  [n \in GlobalNames |->
     IF n = "expect" THEN Native
     ELSE IF e = "jsdom" /\ n \in {"URL", "URL.prototype", "document"} THEN Native
     ELSE Undefined]

NoGlobals == [n \in GlobalNames |-> Undefined]
NoCalls == [n \in Replaced |-> 0]
NoOpCalls == [o \in ObserverOps |-> 0]
NoLast == [op |-> "none", target |-> 0, arg |-> "none", ret |-> "none", test |-> 0]

\* vi.fn(impl): a new mock function with no recorded calls.
ViFn(ms, impl) == Append(ms, [impl |-> impl, calls |-> 0])

\* What a mock function returns: its implementation's result, undefined
\* when it has none.
MockReturn(impl, arg) ==
  CASE impl = "none"     -> "undefined"
    [] impl = "echo"     -> arg
    [] impl = "factory"  -> "object"
    [] OTHER             -> impl

\* Every mock records the call.
RecordCall(ms, i) == [ms EXCEPT ![i].calls = @ + 1]

\* Variant: (u) => u
CreateObjectURLEcho == "echo"

\* () => 'mocked-url'
CreateObjectURLImpl == "mocked-url"
\* vi.fn() with no implementation
RevokeObjectURLImpl == "none"

\* Variant: the returned object lacks disconnect.
ObserverObjectNoDisconnect(ms, insts, kind) ==
  [ obj   |-> [ kind       |-> kind,
                observe    |-> Len(ms) + 1,
                unobserve  |-> Len(ms) + 2,
                disconnect |-> 0 ],
    mocks |-> ViFn(ViFn(ms, "none"), "none") ]

\* Variant: the three mock functions are created once and shared by every
\* object the constructors return.
ObserverObjectShared(ms, insts, kind) ==
  IF insts = <<>>
  THEN [ obj   |-> [ kind       |-> kind,
                     observe    |-> Len(ms) + 1,
                     unobserve  |-> Len(ms) + 2,
                     disconnect |-> Len(ms) + 3 ],
         mocks |-> ViFn(ViFn(ViFn(ms, "none"), "none"), "none") ]
  ELSE [ obj   |-> [insts[1] EXCEPT !.kind = kind],
         mocks |-> ms ]

\* The object an observer constructor returns: three new mock functions.
ObserverObject(ms, insts, kind) ==
  [ obj   |-> [ kind       |-> kind,
                observe    |-> Len(ms) + 1,
                unobserve  |-> Len(ms) + 2,
                disconnect |-> Len(ms) + 3 ],
    mocks |-> ViFn(ViFn(ViFn(ms, "none"), "none"), "none") ]

(***************************************************************************)
(* The setup script, statement by statement                                *)
(***************************************************************************)
Lines == <<"L7", "L9", "L12", "L13", "L16", "L23">>
FirstLine == Lines[1]
\* Variant: the two observer assignments in the other order.
NextLineSwapped(l) ==
  CASE l = "L7"  -> "L9"
    [] l = "L9"  -> "L12"
    [] l = "L12" -> "L13"
    [] l = "L13" -> "L23"
    [] l = "L23" -> "L16"
    [] l = "L16" -> "done"


NextLine(l) ==
  CASE l = "L7"  -> "L9"
    [] l = "L9"  -> "L12"
    [] l = "L12" -> "L13"
    [] l = "L13" -> "L16"
    [] l = "L16" -> "L23"
    [] l = "L23" -> "done"

\* Variant: every statement wrapped in try/catch, the script going on
\* with the next one.
AfterThrowCaught(l) == NextLine(l)

\* The script has no try/catch: a statement that throws ends it.
AfterThrow(l) == "failed"

Step(l) ==
  /\ phase = "setup"
  /\ pc = l
  /\ trace' = Append(trace, l)

Advance(l) ==
  /\ pc' = NextLine(l)
  /\ phase' = IF NextLine(l) = "done" THEN "ready" ELSE "setup"

Throw(l) ==
  /\ pc' = AfterThrow(l)
  /\ phase' = IF AfterThrow(l) = "failed" THEN "failed"
              ELSE IF AfterThrow(l) = "done" THEN "ready" ELSE "setup"

\* import '@testing-library/jest-dom'
Import7 ==
  /\ Step("L7")
  /\ imports' = imports \cup {"@testing-library/jest-dom"}
  /\ Advance("L7")
  /\ UNCHANGED <<exported, cfg, env, globals, mocks, instances, made, madeOn,
                 ncalls, tests, last>>

\* import { vi } from 'vitest'
Import9 ==
  /\ Step("L9")
  /\ imports' = imports \cup {"vitest"}
  /\ Advance("L9")
  /\ UNCHANGED <<exported, cfg, env, globals, mocks, instances, made, madeOn,
                 ncalls, tests, last>>

\* Variant: global.URL = { createObjectURL: vi.fn(() => 'mocked-url') }
Stmt12ReplacesURL ==
  /\ Step("L12")
  /\ mocks' = ViFn(mocks, CreateObjectURLImpl)
  /\ globals' = [globals EXCEPT !["URL"] = [kind |-> "object", id |-> 0],
                                !["URL.prototype"] = Undefined,
                                !["URL.createObjectURL"] = MockRef(Len(mocks) + 1)]
  /\ Advance("L12")
  /\ UNCHANGED <<exported, cfg, env, imports, instances, made, madeOn,
                 ncalls, tests, last>>

\* global.URL.createObjectURL = vi.fn(() => 'mocked-url')
\* The assignment throws a TypeError when global.URL is undefined, before
\* or after its right-hand side has been evaluated.
Stmt12 ==
  /\ Step("L12")
  /\ IF globals["URL"] = Undefined
       THEN /\ Throw("L12")
            /\ \E evaluated \in BOOLEAN :
                 mocks' = IF evaluated THEN ViFn(mocks, CreateObjectURLImpl) ELSE mocks
            /\ UNCHANGED globals
       ELSE /\ Advance("L12")
            /\ mocks' = ViFn(mocks, CreateObjectURLImpl)
            /\ globals' = [globals EXCEPT !["URL.createObjectURL"] = MockRef(Len(mocks) + 1)]
  /\ UNCHANGED <<exported, cfg, env, imports, instances, made, madeOn,
                 ncalls, tests, last>>

\* global.URL.revokeObjectURL = vi.fn()
Stmt13 ==
  /\ Step("L13")
  /\ IF globals["URL"] = Undefined
       THEN /\ Throw("L13")
            /\ \E evaluated \in BOOLEAN :
                 mocks' = IF evaluated THEN ViFn(mocks, RevokeObjectURLImpl) ELSE mocks
            /\ UNCHANGED globals
       ELSE /\ Advance("L13")
            /\ mocks' = ViFn(mocks, RevokeObjectURLImpl)
            /\ globals' = [globals EXCEPT !["URL.revokeObjectURL"] = MockRef(Len(mocks) + 1)]
  /\ UNCHANGED <<exported, cfg, env, imports, instances, made, madeOn,
                 ncalls, tests, last>>

\* global.ResizeObserver = vi.fn().mockImplementation(() => ({...}))
Stmt16 ==
  /\ Step("L16")
  /\ mocks' = ViFn(mocks, "factory")
  /\ globals' = [globals EXCEPT !["ResizeObserver"] = MockRef(Len(mocks) + 1)]
  /\ Advance("L16")
  /\ UNCHANGED <<exported, cfg, env, imports, instances, made, madeOn,
                 ncalls, tests, last>>

\* global.IntersectionObserver = vi.fn().mockImplementation(() => ({...}))
Stmt23 ==
  /\ Step("L23")
  /\ mocks' = ViFn(mocks, "factory")
  /\ globals' = [globals EXCEPT !["IntersectionObserver"] = MockRef(Len(mocks) + 1)]
  /\ Advance("L23")
  /\ UNCHANGED <<exported, cfg, env, imports, instances, made, madeOn,
                 ncalls, tests, last>>

ScriptStep == Import7 \/ Import9 \/ Stmt12 \/ Stmt13 \/ Stmt16 \/ Stmt23

(***************************************************************************)
(* The run: configuration, environment, setup file, tests                  *)
(***************************************************************************)
\* The tool evaluates a configuration file and receives the record it
\* exports.
LoadConfig(f) ==
  /\ phase = "idle"
  /\ exported' = [g \in DOMAIN exported \cup {f} |->
                    IF g = f THEN defineConfig(ConfigLiteral(f)) ELSE exported[g]]
  /\ cfg' = f
  /\ phase' = "loaded"
  /\ UNCHANGED <<env, pc, trace, imports, globals, mocks, instances, made,
                 madeOn, ncalls, tests, last>>

\* The runner builds the environment for a test file (the configured one,
\* unless the test file names another) and evaluates the setup files, if
\* any, before the tests of the file.
StartFile(e) ==
  /\ phase = "loaded"
  /\ env' = e
  /\ globals' = EnvGlobals(e)
  /\ IF SetupFiles(exported[cfg]) # <<>>
       THEN phase' = "setup" /\ pc' = FirstLine
       ELSE phase' = "ready" /\ pc' = "skipped"
  /\ UNCHANGED <<exported, cfg, trace, imports, mocks, instances, made,
                 madeOn, ncalls, tests, last>>

BeginTest ==
  /\ phase = "ready"
  /\ tests < MaxTests
  /\ tests' = tests + 1
  /\ phase' = "test"
  /\ UNCHANGED <<exported, cfg, env, pc, trace, realm>>

\* A test calls URL.createObjectURL(a) or URL.revokeObjectURL(a).
CallURL(name, a) ==
  /\ phase = "test"
  /\ ncalls < MaxCalls
  /\ ncalls' = ncalls + 1
  /\ made' = [made EXCEPT ![name] = @ + 1]
  /\ IF globals[name].kind = "mock"
       THEN /\ mocks' = RecordCall(mocks, globals[name].id)
            /\ last' = [op |-> name, target |-> 0, arg |-> a, test |-> tests,
                         ret |-> MockReturn(mocks[globals[name].id].impl, a)]
       ELSE /\ mocks' = mocks
            /\ last' = [op |-> name, target |-> 0, arg |-> a, test |-> tests, ret |-> "TypeError"]
  /\ UNCHANGED <<exported, cfg, env, phase, pc, trace, imports, globals,
                 instances, madeOn, tests>>

\* A test evaluates new ResizeObserver(a) or new IntersectionObserver(a).
Construct(name, a) ==
  /\ phase = "test"
  /\ ncalls < MaxCalls
  /\ Len(instances) < MaxInstances
  /\ ncalls' = ncalls + 1
  /\ made' = [made EXCEPT ![name] = @ + 1]
  /\ IF globals[name].kind = "mock"
       THEN LET ms == RecordCall(mocks, globals[name].id)
                r  == ObserverObject(ms, instances, name)
            IN /\ mocks' = r.mocks
               /\ instances' = Append(instances, r.obj)
               /\ madeOn' = Append(madeOn, NoOpCalls)
               /\ last' = [op |-> name, target |-> Len(instances) + 1, arg |-> a, test |-> tests,
                            ret |-> MockReturn(mocks[globals[name].id].impl, a)]
       ELSE /\ UNCHANGED <<mocks, instances, madeOn>>
            /\ last' = [op |-> name, target |-> 0, arg |-> a, test |-> tests, ret |-> "TypeError"]
  /\ UNCHANGED <<exported, cfg, env, phase, pc, trace, imports, globals, tests>>

\* A test calls observe, unobserve or disconnect on an observer it built.
CallObserver(i, o, a) ==
  /\ phase = "test"
  /\ ncalls < MaxCalls
  /\ i \in 1..Len(instances)
  /\ ncalls' = ncalls + 1
  /\ madeOn' = [madeOn EXCEPT ![i][o] = @ + 1]
  /\ IF instances[i][o] \in 1..Len(mocks)
       THEN /\ mocks' = RecordCall(mocks, instances[i][o])
            /\ last' = [op |-> o, target |-> i, arg |-> a, test |-> tests,
                         ret |-> MockReturn(mocks[instances[i][o]].impl, a)]
       ELSE /\ mocks' = mocks
            /\ last' = [op |-> o, target |-> i, arg |-> a, test |-> tests, ret |-> "TypeError"]
  /\ UNCHANGED <<exported, cfg, env, phase, pc, trace, imports, globals,
                 instances, made, tests>>

\* After each test the runner clears the recorded calls of every mock only
\* when the configuration asks for it.
EndTest ==
  /\ phase = "test"
  /\ phase' = "ready"
  /\ mocks' = IF ResetsMocks(exported[cfg])
               THEN [k \in 1..Len(mocks) |-> [mocks[k] EXCEPT !.calls = 0]]
               ELSE mocks
  /\ UNCHANGED <<exported, cfg, env, pc, trace, imports, globals, instances,
                 made, madeOn, ncalls, tests, last>>

\* The test file is over (or its setup failed): the realm is discarded.
EndFile ==
  /\ phase \in {"ready", "failed"}
  /\ phase' = "idle"
  /\ cfg' = "none"
  /\ env' = "none"
  /\ pc' = "idle"
  /\ trace' = <<>>
  /\ imports' = {}
  /\ globals' = NoGlobals
  /\ mocks' = <<>>
  /\ instances' = <<>>
  /\ made' = NoCalls
  /\ madeOn' = <<>>
  /\ ncalls' = 0
  /\ tests' = 0
  /\ last' = NoLast
  /\ UNCHANGED exported

Init ==
  /\ exported = [f \in {} |-> 0]
  /\ cfg = "none"
  /\ env = "none"
  /\ phase = "idle"
  /\ pc = "idle"
  /\ trace = <<>>
  /\ imports = {}
  /\ globals = NoGlobals
  /\ mocks = <<>>
  /\ instances = <<>>
  /\ made = NoCalls
  /\ madeOn = <<>>
  /\ ncalls = 0
  /\ tests = 0
  /\ last = NoLast

Next ==
  \/ \E f \in ConfigFiles : LoadConfig(f)
  \/ \E e \in Environments : StartFile(e)
  \/ ScriptStep
  \/ BeginTest
  \/ \E n \in {"URL.createObjectURL", "URL.revokeObjectURL"}, a \in Args : CallURL(n, a)
  \/ \E n \in Observers, a \in Args : Construct(n, a)
  \/ \E i \in 1..MaxInstances, o \in ObserverOps, a \in Args : CallObserver(i, o, a)
  \/ EndTest
  \/ EndFile

Spec == Init /\ [][Next]_vars

\* The setup file is one synchronous module evaluation: once started, its
\* statements run to completion.
FairSpec == Spec /\ WF_vars(ScriptStep)

(***************************************************************************)
(* Properties                                                              *)
(***************************************************************************)
SetupDone == pc = "done"
CreateName == "URL.createObjectURL"
RevokeName == "URL.revokeObjectURL"

\* C1: after setup, every call of URL.createObjectURL returns 'mocked-url',
\* whatever the argument and whatever calls came before; every call of
\* URL.revokeObjectURL returns undefined and leaves createObjectURL a mock
\* that returns 'mocked-url' for every argument.
C1_ObjectURLFixedValues ==
  /\ last.op = CreateName => last.ret = "mocked-url"
  /\ last.op = RevokeName => last.ret = "undefined"
  /\ SetupDone =>
       /\ globals[CreateName].kind = "mock"
       /\ \A a \in Args :
            MockReturn(mocks[globals[CreateName].id].impl, a) = "mocked-url"

\* A second createObjectURL call, made after a revokeObjectURL call.
C1_Witness ==
  /\ last.op = CreateName
  /\ last.arg = "blobB"
  /\ made[CreateName] = 2
  /\ made[RevokeName] = 1

\* C2: constructing ResizeObserver or IntersectionObserver yields an object
\* with observe, unobserve and disconnect, and every call of one of these,
\* in any order, completes and returns undefined.
C2_ObserverOpsReturnUndefined ==
  /\ last.op \in Observers =>
       /\ last.ret = "object"
       /\ last.target \in 1..Len(instances)
  /\ \A i \in 1..Len(instances), o \in ObserverOps :
       instances[i][o] \in 1..Len(mocks)
  /\ last.op \in ObserverOps => last.ret = "undefined"

\* observe called after disconnect, on an observer never observed before.
C2_Witness ==
  /\ last.op = "observe"
  /\ last.target \in 1..Len(instances)
  /\ madeOn[last.target]["disconnect"] = 1
  /\ madeOn[last.target]["observe"] = 1

\* C3: in a run configured by either file, no test starts before all four
\* replacements are in place, and under the configured environment the
\* setup does not fail.
C3_SetupBeforeTests ==
  /\ (phase = "test" \/ tests > 0) =>
       \A n \in Replaced : globals[n].kind = "mock"
  /\ (cfg \in DOMAIN exported /\ env = exported[cfg].test.environment) =>
       pc # "failed"

\* The first test of a run has just started, under either configuration.
C3_Witness ==
  /\ phase = "test"
  /\ tests = 1
  /\ ncalls = 0
  /\ cfg = CopyFile
  /\ env = "jsdom"

Changed == {n \in GlobalNames : globals[n] # EnvGlobals(env)[n]}

ListedValues(c) ==
  /\ c.server = [port |-> 3000, host |-> TRUE, open |-> TRUE]
  /\ c.build = [outDir |-> "build", sourcemap |-> TRUE]
  /\ c.define = [global |-> "globalThis"]
  /\ DOMAIN c.resolve.alias = {"./runtimeConfig", "buffer"}
  /\ c.resolve.alias["./runtimeConfig"] = "./runtimeConfig.browser"
  /\ c.resolve.alias["buffer"] = "buffer"
  /\ c.optimizeDeps.include = <<"aws-amplify", "@aws-amplify/ui-react", "buffer">>
  /\ c.test.globals = TRUE
  /\ c.test.environment = "jsdom"
  /\ c.test.setupFiles = <<"./src/setupTests.js">>
  /\ c.test.css = TRUE
  /\ c.test.server.deps.external = <<"maplibre-gl">>

\* C5: the record each configuration file hands over carries the literal
\* values written in the file, and nothing changes it afterwards.
C5_ConfigPassedUnchanged ==
  /\ [](\A f \in DOMAIN exported :
          /\ exported[f] = ConfigLiteral(f)
          /\ ListedValues(exported[f]))
  /\ [][\A f \in DOMAIN exported :
          f \in DOMAIN exported' /\ exported'[f] = exported[f]]_vars

\* Both files have been evaluated and a test run is under way.
C5_Witness ==
  /\ DOMAIN exported = ConfigFiles
  /\ phase = "test"

Listed(c) ==
  << c.server.port, c.server.host, c.server.open, c.build.outDir,
     c.build.sourcemap, c.define.global, c.resolve.alias,
     c.optimizeDeps.include, c.test.environment, c.test.setupFiles,
     c.test.css, c.test.server.deps.external >>

\* C6: the two configuration records agree on every listed field.
C6_ConfigsAgree ==
  \A f \in DOMAIN exported, g \in DOMAIN exported :
    Listed(exported[f]) = Listed(exported[g])

C6_Witness ==
  /\ DOMAIN exported = ConfigFiles
  /\ phase = "idle"

IsPrefix(s, t) ==
  /\ Len(s) <= Len(t)
  /\ \A i \in 1..Len(s) : s[i] = t[i]

\* C7: the statements of the setup script run in source order, none twice,
\* and all of them exactly once when the script completes, as it does under
\* the configured environment; while the script runs every step is one of
\* its statements; the script always ends.
C7_ScriptRunsOnceInOrder ==
  /\ [](IsPrefix(trace, Lines) /\ (SetupDone => trace = Lines))
  /\ [][phase = "setup" => trace' = Append(trace, pc)]_vars
  /\ (phase = "setup" ~> phase # "setup")
  /\ ((phase = "setup" /\ env = "jsdom") ~> (SetupDone /\ trace = Lines))

C7_Witness ==
  /\ SetupDone
  /\ trace = Lines
  /\ ncalls = 1

Pos(l) == CHOOSE i \in 1..Len(Lines) : Lines[i] = l
InstalledBy(n) ==
  CASE n = CreateName -> "L12"
    [] n = RevokeName -> "L13"
    [] n = "ResizeObserver" -> "L16"
    [] n = "IntersectionObserver" -> "L23"

\* C8: a statement that fails is not caught or retried: the script stops
\* there, the replacements of the statements after it are not installed,
\* and no test runs.
C8_FailureStopsScript ==
  /\ []((Len(trace) > 0 /\ trace[Len(trace)] = "L12" /\ globals["URL"] = Undefined)
          => pc = "failed")
  /\ [](pc = "failed" =>
          /\ trace # <<>>
          /\ \A i \in 1..(Len(trace) - 1) : trace[i] # trace[Len(trace)]
          /\ \A n \in Replaced :
               Pos(InstalledBy(n)) >= Pos(trace[Len(trace)]) => globals[n].kind # "mock"
          /\ tests = 0)
  /\ [][pc = "failed" =>
          \/ UNCHANGED <<pc, trace, globals>>
          \/ phase' = "idle"]_vars

\* The assignment on line 12 has thrown: the environment has no URL.
C8_Witness ==
  /\ pc = "failed"
  /\ trace = <<"L7", "L9", "L12">>
  /\ globals["URL"] = Undefined

\* C9: every constructed observer has mock functions of its own: the calls
\* recorded on each function are exactly the calls made on that operation
\* of that instance, whatever was called on other instances or globals.
C9_InstancesIndependent ==
  /\ \A i \in 1..Len(instances), j \in 1..Len(instances) :
       \A o \in ObserverOps, q \in ObserverOps :
         (i # j \/ o # q) => instances[i][o] # instances[j][q]
  /\ \A i \in 1..Len(instances), o \in ObserverOps, n \in Replaced :
       globals[n].kind = "mock" => instances[i][o] # globals[n].id
  /\ \A i \in 1..Len(instances), o \in ObserverOps :
       /\ instances[i][o] \in 1..Len(mocks)
       /\ mocks[instances[i][o]].calls = madeOn[i][o]

\* One observer of each kind, observe called on the first only.
C9_Witness ==
  /\ Len(instances) = 2
  /\ instances[1].kind = "ResizeObserver"
  /\ instances[2].kind = "IntersectionObserver"
  /\ madeOn[1]["observe"] = 1
  /\ madeOn[2]["observe"] = 0

\* C10: from the end of setup on, the recorded call count of each mocked
\* global equals the number of calls tests have made to it, across tests.
C10_CallCountsAccumulate ==
  phase \in {"ready", "test"} =>
    \A n \in Replaced :
      /\ globals[n].kind = "mock"
      /\ mocks[globals[n].id].calls = made[n]

\* In the second test, a call made by the first test is still recorded.
C10_Witness ==
  /\ phase = "test"
  /\ tests = 2
  /\ last.test = 1
  /\ made[CreateName] = 1
  /\ made["ResizeObserver"] = 1
  /\ mocks[globals[CreateName].id].calls = 1

====
